---- MODULE Spec2Model ----
(***************************************************************************)
(* Interaction / camera state machine of src/main.js (3D resume scene).    *)
(*                                                                         *)
(* Units.  Time is counted in units of 100 ms (the three tween durations   *)
(* 8000, 1200 and 1500 ms become 80, 12 and 15).  Lengths are counted in   *)
(* tenths of a scene unit (the anchor (0,2,8) becomes <<0,20,80>>).        *)
(* Vectors are triples <<x, y, z>>.  A JavaScript null reference is 0;     *)
(* papers are numbered 1..numberOfPapers (index i of the code is i+1).     *)
(*                                                                         *)
(* The browser is single-threaded: event handlers run between frames, and  *)
(* the callbacks requested with requestAnimationFrame run one after the    *)
(* other, in request order, at the next frame.                             *)
(*                                                                         *)
(* The ray cast is the rendering library's: what the ray from the pointer  *)
(* position (mouse, written by onMouseMove and onClick) hits depends on    *)
(* the camera and on the floating papers, and is an input of each frame    *)
(* and of each click (HitLists).  Camera orientation, the Earth, the Moon  *)
(* and the shader passes play no part in the state machine.                *)
(***************************************************************************)
EXTENDS Integers, Sequences, FiniteSets, TLC

VARIABLES
    now,                        \* clock (Date.now() and the frame timestamp)
    rafQueue,                   \* callbacks requested for the next frame
    frameQueue,                 \* callbacks of the running frame still to run
    frameSteps,                 \* what the running/last frame did, in order
    initialAnimationComplete,   \* main.js:270
    initialAnimationStartTime,  \* main.js:271 (0 = null)
    cameraPosition,             \* camera.position
    controlsTarget,             \* controls.target
    controlsEnabled,            \* controls.enabled
    minDistance,                \* controls.minDistance
    maxDistance,                \* controls.maxDistance
    cameraOrbitAngle,           \* main.js:949, in units of 1e-4 rad
    papers,                     \* main.js:379, the loaded Focusable Items
    loadIndex,                  \* loop variable i of loadPapers (1-based)
    loadStage,                  \* where createPaper(loadIndex) stands
    paperPosition,              \* fbx.position of each paper
    labelTitle,                 \* title of the label createPaper gives each paper
    labelOpacity,               \* userData.label.material.opacity, tenths
    intersects,                 \* ray hits found by the last animate()
    lastHoveredModel,           \* main.js:632 (0 = null)
    hoverSoundPlayed,           \* did the last animate() call hoverSound.play()
    isZooming,                  \* main.js:776
    selectedModel,              \* main.js:777 (0 = null)
    overlayDisplay,             \* contentOverlay.style.display
    overlayText,                \* label whose text contentOverlay shows
    consoleErrors,              \* labels showContent reported with console.error
    zoomTween,                  \* closure of zoomToModel while animateCamera is queued
    resetTween,                 \* closure of resetView while animateReset is queued
    clickSeq                    \* parity of the clicks onClick got since the last frame

vars == <<now, rafQueue, frameQueue, frameSteps, initialAnimationComplete,
          initialAnimationStartTime, cameraPosition, controlsTarget,
          controlsEnabled, minDistance, maxDistance, cameraOrbitAngle, papers,
          loadIndex, loadStage, paperPosition, labelTitle, labelOpacity,
          intersects, lastHoveredModel, hoverSoundPlayed, isZooming,
          selectedModel, overlayDisplay, overlayText, consoleErrors, zoomTween,
          resetTween,
          clickSeq>>

\* Everything a click could touch (all but the click parity itself).
clickVisible == <<now, rafQueue, frameQueue, frameSteps, initialAnimationComplete,
          initialAnimationStartTime, cameraPosition, controlsTarget,
          controlsEnabled, minDistance, maxDistance, cameraOrbitAngle, papers,
          loadIndex, loadStage, paperPosition, labelTitle, labelOpacity,
          intersects, lastHoveredModel, hoverSoundPlayed, isZooming,
          selectedModel, overlayDisplay, overlayText, consoleErrors, zoomTween,
          resetTween>>

----------------------------------------------------------------------------
(* Bounds of the model *)

MaxTime == 126
FrameDt == 6
MaxPapers == 2

----------------------------------------------------------------------------
(* Program constants *)

numberOfPapers == 5
introDuration == 80
animationDuration == 12
resetDuration == 15
defaultMinDistance == 30
defaultMaxDistance == 1000
highlightOpacity == 8
initialOrbitAngle == 15708

\* Faulty variant: the reset tween returns to the camera's position at start-up
originalCameraPosition == <<0, 1000, 200>>

finalCameraPosition == <<0, 20, 80>>
initialCameraPosition == <<0, 1000, 200>>
resetTarget == <<0, 0, 60>>

\* paperLabels (accents dropped)
paperLabels ==
    <<"Education", "Experience", "Competences", "A Propos", "Mes Projets">>

\* sectionContent: label -> text (first line of each entry)
sectionContent ==
    [l \in {"Education", "Experience", "Competences", "A Propos",
            "Mes Projets", "Contact"} |->
        CASE l = "Education"   -> "Licence en TIC"
          [] l = "Experience"  -> "Stage en Developpement Web - Smart Team"
          [] l = "Competences" -> "Developpement Web"
          [] l = "A Propos"    -> "Etudiant en 3eme annee Licence"
          [] l = "Mes Projets" -> "Project Ecology Simulation"
          [] l = "Contact"     -> "Email"]

\* position computed by loadPapers for paper i (cos/sin of i*72 degrees, rounded)
initialPosition ==
    <<  <<15, 0, 60>>, <<5, 1, 74>>, <<-12, -2, 69>>, <<-12, 2, 51>>, <<5, -1, 46>> >>

\* Largest dimension of each paper's bounding box (asset data: the notepad
\* and the open book alternate)
maxDimension == <<6, 5, 6, 5, 6>>

\* Float displacement of each paper, a sample of the Math.random() parameters
\* fixed at creation (amplitude 0.07..0.21; the phase advances by less than
\* 0.003 rad/s, so the displacement is constant over a session).
floatDisplacement ==
    <<  <<1, 1, 0>>, <<-2, -1, 1>>, <<0, 2, -1>>, <<2, -2, 0>>, <<-1, 0, 1>> >>

\* Camera positions a drag through OrbitControls can produce.
DragPositions == { <<10, 5, 80>> }

NumPapers == IF numberOfPapers < MaxPapers THEN numberOfPapers ELSE MaxPapers
PaperIds == 1..NumPapers

NoTween == [active |-> FALSE]

----------------------------------------------------------------------------
(* Arithmetic helpers *)

Min(a, b) == IF a < b THEN a ELSE b

Cube(x) == x * x * x

\* THREE.Vector3.lerpVectors(v1, v2, alpha) with alpha = num/den
LerpVectors(v1, v2, num, den) ==
    [k \in 1..3 |-> v1[k] + ((v2[k] - v1[k]) * num) \div den]

VecAdd(a, b) == [k \in 1..3 |-> a[k] + b[k]]

RECURSIVE Pow2(_)
Pow2(n) == IF n = 0 THEN 1 ELSE 2 * Pow2(n - 1)

\* 1000 * 2^(r/8), r in 0..7
Root8 == <<1000, 1091, 1189, 1297, 1414, 1542, 1682, 1834>>

\* Faulty variant: progress is not clamped at 1
ProgressUnclamped(elapsed, duration) == elapsed

\* progress = Math.min(elapsed / duration, 1), as the clamped numerator
Progress(elapsed, duration) == Min(elapsed, duration)

\* initialCameraAnimation: progress === 1 ? 1 : 1 - 2^(-10*progress), in 1/1000
IntroEase(e) ==
    IF e = introDuration THEN 1000
    ELSE LET step == introDuration \div 10
         IN  1000 - (1000 * 1000) \div (Pow2(e \div step) * Root8[(e % step) + 1])

\* animateCamera: p < 0.5 ? 4p^3 : 1 - (-2p+2)^3/2, numerator over d^3
EaseInOutCubic(e, d) ==
    IF 2 * e < d THEN 4 * Cube(e) ELSE Cube(d) - 4 * Cube(d - e)

\* animateReset: 1 - (1-p)^3, numerator over d^3
EaseOutCubic(e, d) == Cube(d) - Cube(d - e)

\* sin(time * 0.3) * 0.2 in tenths; t in units of 100 ms
OrbitBob(t) ==
    LET ph == (3 * t) % 628
    IN  IF ph < 25 THEN 0 ELSE IF ph < 85 THEN 1 ELSE IF ph < 229 THEN 2
        ELSE IF ph < 289 THEN 1 ELSE IF ph < 339 THEN 0 ELSE IF ph < 399 THEN -1
        ELSE IF ph < 543 THEN -2 ELSE IF ph < 603 THEN -1 ELSE 0

\* (cos(angle)*R, H + bob, sin(angle)*R + 6) for angles close to pi/2
OrbitPosition(angle, t) ==
    << (40 * (initialOrbitAngle - angle)) \div 10000, 8 + OrbitBob(t), 100 >>

\* Results raycaster.intersectObjects(papers, true) can give for the pointer
\* position (mouse) and the camera of the moment: the owners of the hit
\* meshes, nearest first.  The code reads the nearest hit only, so the
\* nearest hit and one farther hit are kept.
HitLists(ps) ==
    LET loaded == {ps[k] : k \in 1..Len(ps)}
    IN  {<<>>} \cup {<<a>> : a \in loaded}
        \cup ({<<a, b>> : a \in loaded, b \in loaded} \ {<<a, a>> : a \in loaded})

\* walk from the nearest hit mesh up to the ancestor carrying userData.label
ParentModel(hits) == IF hits = <<>> THEN 0 ELSE hits[1]

IsIdle == initialAnimationComplete /\ ~isZooming /\ selectedModel = 0

----------------------------------------------------------------------------
InitScene ==
    /\ now = 0
    /\ rafQueue = <<"initialCameraAnimation", "animate">>
    /\ frameQueue = <<>>
    /\ frameSteps = <<>>
    /\ initialAnimationComplete = FALSE
    /\ initialAnimationStartTime = 0
    /\ cameraPosition = initialCameraPosition
    /\ controlsTarget = resetTarget
    /\ controlsEnabled = FALSE
    /\ minDistance = defaultMinDistance
    /\ maxDistance = defaultMaxDistance
    /\ cameraOrbitAngle = initialOrbitAngle
    /\ papers = <<>>
    /\ loadIndex = 1
    /\ loadStage = "textures"
    /\ paperPosition = [i \in PaperIds |-> initialPosition[i]]
    /\ labelOpacity = [i \in PaperIds |-> 0]
    /\ intersects = <<>>
    /\ lastHoveredModel = 0
    /\ hoverSoundPlayed = FALSE
    /\ isZooming = FALSE
    /\ selectedModel = 0
    /\ overlayDisplay = "none"
    /\ overlayText = ""
    /\ consoleErrors = {}
    /\ zoomTween = NoTween
    /\ resetTween = NoTween
    /\ clickSeq = 0

\* createLabel(paperLabels[index], labelPosition)
Init == InitScene /\ labelTitle = paperLabels

----------------------------------------------------------------------------
(* Variable groups *)

introVars == <<initialAnimationComplete, initialAnimationStartTime>>
loadVars == <<papers, loadIndex, loadStage, labelTitle>>
hoverVars == <<labelOpacity, intersects, lastHoveredModel, hoverSoundPlayed>>
limitVars == <<minDistance, maxDistance>>
overlayVars == <<overlayDisplay, overlayText, consoleErrors>>

----------------------------------------------------------------------------
(* The frame scheduler: requestAnimationFrame *)

\* The browser starts a frame: the clock has advanced, and the callbacks
\* requested so far are run in request order.
BeginFrame ==
    /\ frameQueue = <<>>
    /\ now + FrameDt <= MaxTime
    /\ now' = now + FrameDt
    /\ frameQueue' = rafQueue
    /\ rafQueue' = <<>>
    /\ frameSteps' = <<>>
    /\ clickSeq' = 0
    /\ UNCHANGED <<introVars, cameraPosition, controlsTarget, controlsEnabled,
                   limitVars, cameraOrbitAngle, loadVars, paperPosition,
                   hoverVars, isZooming, selectedModel, overlayVars,
                   zoomTween, resetTween>>

Running(cb) == frameQueue # <<>> /\ Head(frameQueue) = cb

----------------------------------------------------------------------------
(* initialCameraAnimation(timestamp) *)

IntroCameraPosition(ease) ==
    << 0,
       (1000 * (1000 - ease) + 20 * ease) \div 1000,
       (200 * (1000 - ease) + 80 * ease) \div 1000 >>

RunInitialCameraAnimation ==
    /\ Running("initialCameraAnimation")
    /\ LET start == IF initialAnimationStartTime = 0
                    THEN now ELSE initialAnimationStartTime
           e == Progress(now - start, introDuration)
       IN  /\ initialAnimationStartTime' = start
           /\ cameraPosition' = IntroCameraPosition(IntroEase(e))
           /\ IF e < introDuration
              THEN /\ rafQueue' = Append(rafQueue, "initialCameraAnimation")
                   /\ UNCHANGED <<initialAnimationComplete, controlsEnabled>>
              ELSE /\ rafQueue' = rafQueue
                   /\ initialAnimationComplete' = TRUE
                   /\ controlsEnabled' = TRUE
    /\ frameQueue' = Tail(frameQueue)
    /\ frameSteps' = Append(frameSteps, "intro")
    /\ UNCHANGED <<now, controlsTarget, limitVars, cameraOrbitAngle, loadVars,
                   paperPosition, hoverVars, isZooming, selectedModel,
                   overlayVars, zoomTween, resetTween, clickSeq>>

----------------------------------------------------------------------------
(* showContent(model) *)

\* Faulty variant: a label without an entry is shown under its own name
ShowLabelAlways(label) ==
    /\ overlayText' = IF label \in DOMAIN sectionContent
                      THEN sectionContent[label] ELSE label
    /\ overlayDisplay' = "block"
    /\ UNCHANGED consoleErrors

\* const content = sectionContent[labelText]; and what follows it
ShowLabel(label) ==
    IF label \notin DOMAIN sectionContent
    THEN /\ consoleErrors' = consoleErrors \cup {label}
         /\ UNCHANGED <<overlayDisplay, overlayText>>
    ELSE /\ overlayText' = sectionContent[label]
         /\ overlayDisplay' = "block"
         /\ UNCHANGED consoleErrors

ShowContent(model) ==
    IF model = 0
    THEN UNCHANGED overlayVars
    ELSE ShowLabel(labelTitle[model])

----------------------------------------------------------------------------
(* zoomToModel(model) and its frame callback animateCamera *)

\* Faulty variant: the tween is declared complete at half of its duration
ZoomCompleteEarly(tw) ==
    2 * Progress(now - tw.startTime, animationDuration) >= animationDuration

\* if (progress < 1) ... else ...  of animateCamera
ZoomComplete(tw) == Progress(now - tw.startTime, animationDuration) >= animationDuration

\* Faulty variant: an unfinished tween does not request its next frame
AnimateCameraDropsFrame(tw, enabled) ==
    LET e == Progress(now - tw.startTime, animationDuration)
        num == EaseInOutCubic(e, animationDuration)
        den == Cube(animationDuration)
    IN  /\ cameraPosition' = LerpVectors(tw.startPosition, tw.targetPosition, num, den)
        /\ controlsTarget' = LerpVectors(tw.startTarget, tw.modelPosition, num, den)
        /\ rafQueue' = rafQueue
        /\ IF ~ZoomComplete(tw)
           THEN /\ zoomTween' = tw
                /\ controlsEnabled' = enabled
                /\ UNCHANGED <<limitVars, overlayVars>>
           ELSE /\ zoomTween' = NoTween
                /\ controlsEnabled' = TRUE
                /\ minDistance' = tw.zoomDistance \div 2
                /\ maxDistance' = tw.zoomDistance * 2
                /\ ShowContent(tw.model)

\* One call of animateCamera on closure tw; enabled is controls.enabled before it.
AnimateCamera(tw, enabled) ==
    LET e == Progress(now - tw.startTime, animationDuration)
        num == EaseInOutCubic(e, animationDuration)
        den == Cube(animationDuration)
    IN  /\ cameraPosition' = LerpVectors(tw.startPosition, tw.targetPosition, num, den)
        /\ controlsTarget' = LerpVectors(tw.startTarget, tw.modelPosition, num, den)
        /\ IF ~ZoomComplete(tw)
           THEN /\ rafQueue' = Append(rafQueue, "animateCamera")
                /\ zoomTween' = tw
                /\ controlsEnabled' = enabled
                /\ UNCHANGED <<limitVars, overlayVars>>
           ELSE /\ rafQueue' = rafQueue
                /\ zoomTween' = NoTween
                /\ controlsEnabled' = TRUE
                /\ minDistance' = tw.zoomDistance \div 2
                /\ maxDistance' = tw.zoomDistance * 2
                /\ ShowContent(tw.model)

\* Faulty variant: the camera is placed level with the item, not above it
TargetOffsetLevel(zoomDistance) == <<0, 0, zoomDistance>>

\* new THREE.Vector3(0, 0.2, zoomDistance)
TargetOffset(zoomDistance) == <<0, 2, zoomDistance>>

ZoomToModel(model) ==
    LET modelPosition == paperPosition[model]
        zoomDistance == maxDimension[model] * 2
        tw == [active |-> TRUE,
               model |-> model,
               modelPosition |-> modelPosition,
               zoomDistance |-> zoomDistance,
               targetPosition |-> VecAdd(modelPosition, TargetOffset(zoomDistance)),
               startPosition |-> cameraPosition,
               startTarget |-> controlsTarget,
               startTime |-> now]
    IN  /\ isZooming' = TRUE
        /\ AnimateCamera(tw, FALSE)

RunAnimateCamera ==
    /\ Running("animateCamera")
    /\ AnimateCamera(zoomTween, controlsEnabled)
    /\ frameQueue' = Tail(frameQueue)
    /\ frameSteps' = Append(frameSteps, "zoom")
    /\ UNCHANGED <<now, introVars, cameraOrbitAngle, loadVars, paperPosition,
                   hoverVars, isZooming, selectedModel, resetTween,
                   clickSeq>>

----------------------------------------------------------------------------
(* onClick(event) *)

\* Faulty variant: no single-flight guard
OnClickNeverIgnored == FALSE

\* Faulty variant: the guard looks at the tweens in flight only
OnClickIgnoredDuringTweens == zoomTween.active \/ resetTween.active

\* if (isZooming) return;
OnClickIgnored == isZooming

OnClick(hits) ==
    /\ frameQueue = <<>>
    /\ clickSeq' = 1 - clickSeq
    /\ IF OnClickIgnored
       THEN UNCHANGED clickVisible
       ELSE /\ IF ParentModel(hits) # 0
               THEN /\ selectedModel' = ParentModel(hits)
                    /\ ZoomToModel(ParentModel(hits))
               ELSE UNCHANGED <<rafQueue, cameraPosition, controlsTarget,
                                controlsEnabled, limitVars, isZooming,
                                selectedModel, overlayVars, zoomTween>>
            /\ UNCHANGED <<now, frameQueue, frameSteps, introVars,
                           cameraOrbitAngle, loadVars, paperPosition, hoverVars,
                           resetTween>>

----------------------------------------------------------------------------
(* resetView() and its frame callback animateReset *)

\* !isZooming && !contentOverlay.style.display === 'block'
\* (!display is a boolean, and a boolean is never === a string)
ResetViewReturnsEarly == ~isZooming /\ FALSE

ResetComplete(tw) == Progress(now - tw.startTime, resetDuration) >= resetDuration

\* Faulty variant: the completed reset keeps the selected item
AnimateResetKeepsSelection(tw, enabled, selected) ==
    LET e == Progress(now - tw.startTime, resetDuration)
        num == EaseOutCubic(e, resetDuration)
        den == Cube(resetDuration)
    IN  /\ cameraPosition' = LerpVectors(tw.startPosition, finalCameraPosition, num, den)
        /\ controlsTarget' = LerpVectors(tw.startTarget, resetTarget, num, den)
        /\ selectedModel' = selected
        /\ IF ~ResetComplete(tw)
           THEN /\ rafQueue' = Append(rafQueue, "animateReset")
                /\ resetTween' = tw
                /\ isZooming' = TRUE
                /\ controlsEnabled' = enabled
                /\ UNCHANGED limitVars
           ELSE /\ rafQueue' = rafQueue
                /\ resetTween' = NoTween
                /\ isZooming' = FALSE
                /\ controlsEnabled' = TRUE
                /\ minDistance' = defaultMinDistance
                /\ maxDistance' = defaultMaxDistance

\* One call of animateReset on closure tw; enabled and selected are
\* controls.enabled and selectedModel before it.
AnimateReset(tw, enabled, selected) ==
    LET e == Progress(now - tw.startTime, resetDuration)
        num == EaseOutCubic(e, resetDuration)
        den == Cube(resetDuration)
    IN  /\ cameraPosition' = LerpVectors(tw.startPosition, finalCameraPosition, num, den)
        /\ controlsTarget' = LerpVectors(tw.startTarget, resetTarget, num, den)
        /\ IF ~ResetComplete(tw)
           THEN /\ rafQueue' = Append(rafQueue, "animateReset")
                /\ resetTween' = tw
                /\ isZooming' = TRUE
                /\ controlsEnabled' = enabled
                /\ selectedModel' = selected
                /\ UNCHANGED limitVars
           ELSE /\ rafQueue' = rafQueue
                /\ resetTween' = NoTween
                /\ isZooming' = FALSE
                /\ controlsEnabled' = TRUE
                /\ minDistance' = defaultMinDistance
                /\ maxDistance' = defaultMaxDistance
                /\ selectedModel' = 0

\* Faulty variant: the overlay is hidden by the completion of the tween only
ResetViewHidesOverlayLate ==
    /\ frameQueue = <<>>
    /\ overlayDisplay = "block"
    /\ AnimateReset([active |-> TRUE,
                     startPosition |-> cameraPosition,
                     startTarget |-> controlsTarget,
                     startTime |-> now], FALSE, selectedModel)
    /\ UNCHANGED <<now, frameQueue, frameSteps, introVars, cameraOrbitAngle,
                   loadVars, paperPosition, hoverVars, overlayVars,
                   zoomTween, clickSeq>>

\* One call of resetView()
ResetViewCall ==
    /\ frameQueue = <<>>
    /\ IF ResetViewReturnsEarly
       THEN UNCHANGED <<rafQueue, cameraPosition, controlsTarget, controlsEnabled,
                        limitVars, isZooming, selectedModel, overlayDisplay,
                        resetTween>>
       ELSE /\ AnimateReset([active |-> TRUE,
                             startPosition |-> cameraPosition,
                             startTarget |-> controlsTarget,
                             startTime |-> now], FALSE, selectedModel)
            /\ overlayDisplay' = "none"
    /\ UNCHANGED <<now, frameQueue, frameSteps, introVars, cameraOrbitAngle,
                   loadVars, paperPosition, hoverVars, overlayText, consoleErrors,
                   zoomTween, clickSeq>>

\* The close button of the overlay (listener added by showContent); the
\* button can be clicked only while the overlay is displayed.  The click
\* then bubbles to the window's onClick, which returns at once because
\* isZooming is true.
ResetView ==
    /\ overlayDisplay = "block"
    /\ ResetViewCall

RunAnimateReset ==
    /\ Running("animateReset")
    /\ AnimateReset(resetTween, controlsEnabled, selectedModel)
    /\ overlayDisplay' = IF ResetComplete(resetTween) THEN "none" ELSE overlayDisplay
    /\ frameQueue' = Tail(frameQueue)
    /\ frameSteps' = Append(frameSteps, "reset")
    /\ UNCHANGED <<now, introVars, cameraOrbitAngle, loadVars, paperPosition,
                   hoverVars, overlayText, consoleErrors, zoomTween, clickSeq>>

----------------------------------------------------------------------------
(* animate(): the main frame callback *)

\* Faulty variant: the orbit runs whenever the intro is over
OrbitAlways == initialAnimationComplete

\* if (initialAnimationComplete && !isZooming && !selectedModel)
OrbitActive == initialAnimationComplete /\ ~isZooming /\ selectedModel = 0

\* Faulty variant: the labels are not reset before the hovered one is highlighted
HoverOpacityNoReset(parent) ==
    IF parent = 0 THEN labelOpacity
    ELSE [labelOpacity EXCEPT ![parent] = highlightOpacity]

\* papers.forEach(label opacity = 0), then the hovered label gets 0.8
HoverOpacity(parent) ==
    [i \in PaperIds |-> IF i = parent THEN highlightOpacity ELSE 0]

\* Faulty variant: the sound is played in every frame that hovers an item
HoverSoundPlaysEveryFrame(last, parent) == parent # 0

\* if (lastHoveredModel !== parentModel) hoverSound.play()
HoverSoundPlays(last, parent) == parent # 0 /\ last # parent

\* the steps of one animate() call, in program order
AnimateSteps ==
    (IF OrbitActive THEN <<"orbit">>
     ELSE IF initialAnimationComplete THEN <<"controls">> ELSE <<>>)
    \o <<"hover", "render">>

\* paper.position = initialPos + float terms, for every loaded paper
FloatedPositions ==
    [i \in PaperIds |->
        IF \E k \in 1..Len(papers) : papers[k] = i
        THEN VecAdd(initialPosition[i], floatDisplacement[i])
        ELSE paperPosition[i]]

RunAnimate(hits) ==
    /\ Running("animate")
    /\ rafQueue' = Append(rafQueue, "animate")
    /\ IF OrbitActive
       THEN /\ cameraOrbitAngle' = cameraOrbitAngle - 1
            /\ cameraPosition' = OrbitPosition(cameraOrbitAngle - 1, now)
       ELSE \* controls.update(): OrbitControls applies user input, modelled
            \* in UserOrbit; without input it leaves the position alone
            UNCHANGED <<cameraOrbitAngle, cameraPosition>>
    /\ intersects' = hits
    /\ labelOpacity' = HoverOpacity(ParentModel(hits))
    /\ hoverSoundPlayed' = HoverSoundPlays(lastHoveredModel, ParentModel(hits))
    /\ lastHoveredModel' = ParentModel(hits)
    /\ paperPosition' = FloatedPositions
    /\ frameQueue' = Tail(frameQueue)
    /\ frameSteps' = frameSteps \o AnimateSteps
    /\ UNCHANGED <<now, introVars, controlsTarget, controlsEnabled, limitVars,
                   loadVars, isZooming, selectedModel, overlayVars,
                   zoomTween, resetTween, clickSeq>>

----------------------------------------------------------------------------
(* OrbitControls *)

\* A drag handled by OrbitControls, which listens only while controls.enabled
UserOrbit(p) ==
    /\ frameQueue = <<>>
    /\ controlsEnabled
    /\ cameraPosition' = p
    /\ UNCHANGED <<now, rafQueue, frameQueue, frameSteps, introVars,
                   controlsTarget, controlsEnabled, limitVars, cameraOrbitAngle,
                   loadVars, paperPosition, hoverVars, isZooming,
                   selectedModel, overlayVars, zoomTween, resetTween, clickSeq>>

----------------------------------------------------------------------------
(* loadPapers / createPaper: one paper after the other *)

\* Promise.all(texturePromises) resolves: fbxLoader.load starts
TexturesLoaded ==
    /\ frameQueue = <<>>
    /\ loadStage = "textures"
    /\ loadStage' = "model"
    /\ UNCHANGED <<now, rafQueue, frameQueue, frameSteps, introVars,
                   cameraPosition, controlsTarget, controlsEnabled, limitVars,
                   cameraOrbitAngle, papers, loadIndex, labelTitle,
                   paperPosition, hoverVars, isZooming, selectedModel,
                   overlayVars, zoomTween, resetTween, clickSeq>>

\* the FBX callback: the paper joins the scene and papers, and the await in
\* loadPapers resumes with the next index
ModelLoaded ==
    /\ frameQueue = <<>>
    /\ loadStage = "model"
    /\ papers' = Append(papers, loadIndex)
    /\ paperPosition' = [paperPosition EXCEPT ![loadIndex] = initialPosition[loadIndex]]
    /\ labelOpacity' = [labelOpacity EXCEPT ![loadIndex] = 0]
    /\ loadIndex' = loadIndex + 1
    /\ loadStage' = IF loadIndex + 1 > NumPapers THEN "done" ELSE "textures"
    /\ UNCHANGED <<now, rafQueue, frameQueue, frameSteps, introVars,
                   cameraPosition, controlsTarget, controlsEnabled, limitVars,
                   cameraOrbitAngle, labelTitle, intersects, lastHoveredModel,
                   hoverSoundPlayed, isZooming, selectedModel,
                   overlayVars, zoomTween, resetTween, clickSeq>>

\* a texture or model file fails to load: its callback never fires (no
\* onError is passed), so the promise of createPaper never resolves
AssetLoadFails ==
    /\ frameQueue = <<>>
    /\ loadStage \in {"textures", "model"}
    /\ loadStage' = "stalled"
    /\ UNCHANGED <<now, rafQueue, frameQueue, frameSteps, introVars,
                   cameraPosition, controlsTarget, controlsEnabled, limitVars,
                   cameraOrbitAngle, papers, loadIndex, labelTitle,
                   paperPosition, hoverVars, isZooming, selectedModel,
                   overlayVars, zoomTween, resetTween, clickSeq>>

----------------------------------------------------------------------------
Next ==
    \/ BeginFrame
    \/ RunInitialCameraAnimation
    \/ \E hits \in HitLists(papers) : RunAnimate(hits)
    \/ RunAnimateCamera
    \/ RunAnimateReset
    \/ \E hits \in HitLists(papers) : OnClick(hits)
    \/ ResetView
    \/ \E p \in DragPositions : UserOrbit(p)
    \/ TexturesLoaded
    \/ ModelLoaded
    \/ AssetLoadFails

Spec == Init /\ [][Next]_vars

----------------------------------------------------------------------------
(* Vocabulary of the properties *)

CountIn(seq, cb) == Cardinality({k \in DOMAIN seq : seq[k] = cb})

\* cb has a pending frame callback
Pending(cb) == CountIn(rafQueue, cb) + CountIn(frameQueue, cb) > 0

\* The states of the interaction machine
InFocusTweenIn == zoomTween.active
InFocusTweenOut == resetTween.active
InFocused == isZooming /\ ~zoomTween.active /\ ~resetTween.active

\* Steps
ClickStep == clickSeq' # clickSeq /\ now' = now
AnimateStep == Running("animate") /\ frameQueue' # frameQueue
ZoomTweenStarts == zoomTween'.active /\ zoomTween' # zoomTween
ZoomTweenCompletes == zoomTween.active /\ ~zoomTween'.active
ResetTweenStarts == resetTween'.active /\ resetTween' # resetTween
ResetTweenCompletes == resetTween.active /\ ~resetTween'.active

\* the item the ray of the last animate() hovered (0 = none)
Hovered == ParentModel(intersects)

Last(seq) == seq[Len(seq)]

----------------------------------------------------------------------------
(* C1: single-flight focus.  A focus-in tween is started only by a click,  *)
(* only while isZooming is false, and it sets isZooming and selectedModel  *)
(* to the clicked item; isZooming becomes false again only when a reset    *)
(* tween completes; so at most one animateCamera callback is ever pending  *)
(* and no second focus-in starts before a completed reset.                 *)
C1_SingleFlightFocus ==
    [][ /\ ZoomTweenStarts =>
              /\ ClickStep
              /\ ~isZooming
              /\ ~Pending("animateCamera") /\ ~Pending("animateReset")
              /\ isZooming'
              /\ selectedModel' # 0
              /\ selectedModel' = zoomTween'.model
        /\ (isZooming /\ ~isZooming') => ResetTweenCompletes
        /\ CountIn(rafQueue', "animateCamera")
             + CountIn(frameQueue', "animateCamera") <= 1
        /\ (ClickStep /\ isZooming) => ~ZoomTweenStarts
      ]_vars

\* after the idle orbit ran, a reset tween ended on the anchor, and a new
\* focus-in tween, started from there by a click in Idle, is in flight
C1_Witness ==
    /\ initialAnimationComplete
    /\ zoomTween.active
    /\ cameraOrbitAngle < initialOrbitAngle
    /\ zoomTween.startPosition = finalCameraPosition
    /\ selectedModel = zoomTween.model

(* C2: a click in FocusTweenIn, Focused or FocusTweenOut changes nothing   *)
(* (selected item, tweens in flight, zoom limits, controls.enabled,        *)
(* overlay, camera, queues).                                               *)
C2_ClickIgnoredWhileFocusing ==
    [][ (ClickStep /\ (InFocusTweenIn \/ InFocused \/ InFocusTweenOut))
            => UNCHANGED clickVisible ]_vars

\* a click was delivered while Focused (overlay shown) and left it so
C2_Witness ==
    /\ clickSeq = 1
    /\ InFocused
    /\ overlayDisplay = "block"

(* C3: while initialAnimationComplete is false no focus-in tween starts    *)
(* and selectedModel stays null.                                           *)
C3_NoFocusBeforeIntroCompletes ==
    ~initialAnimationComplete =>
        (selectedModel = 0 /\ ~isZooming /\ ~zoomTween.active)

(* C4: at most one of the intro tween, the focus-in tween and the reset    *)
(* tween has a pending frame callback.                                     *)
C4_AtMostOneTweenInFlight ==
    Cardinality({cb \in {"initialCameraAnimation", "animateCamera", "animateReset"} :
                    Pending(cb)}) <= 1

(* C5: in every frame the steps that write the camera pose (intro, orbit,  *)
(* focus-in tween, reset tween) come before the hover ray, and the hover   *)
(* ray comes before the render.                                            *)
C5_PoseBeforeHoverBeforeRender ==
    \A i, j \in DOMAIN frameSteps :
        /\ (frameSteps[i] \in {"intro", "orbit", "zoom", "reset"}
              /\ frameSteps[j] \in {"hover", "render"}) => i < j
        /\ (frameSteps[i] = "hover" /\ frameSteps[j] = "render") => i < j

(* C6: the focus-in tween completes exactly in the animateCamera call      *)
(* whose progress is 1: in that step the zoom range becomes [zd/2, 2 zd]   *)
(* for zd = 2 * the selected item's largest dimension, controls are        *)
(* enabled and the overlay shows the text of the selected item's label;    *)
(* while the tween is in flight the overlay is hidden and the zoom range   *)
(* is the default one.                                                     *)
C6_FocusedExactlyAtProgressOne ==
    [][ /\ ZoomTweenCompletes =>
              /\ now - zoomTween.startTime >= 12
              /\ selectedModel' = zoomTween.model
              /\ zoomTween.zoomDistance = 2 * maxDimension[selectedModel']
              /\ 2 * minDistance' = zoomTween.zoomDistance
              /\ maxDistance' = 2 * zoomTween.zoomDistance
              /\ controlsEnabled'
              /\ overlayDisplay' = "block"
              /\ overlayText' = sectionContent[paperLabels[selectedModel']]
        /\ (Running("animateCamera") /\ now - zoomTween.startTime >= 12)
              => ZoomTweenCompletes
        /\ zoomTween'.active =>
              /\ overlayDisplay' = "none"
              /\ minDistance' = 30 /\ maxDistance' = 1000
      ]_vars

\* Focused on paper 2 (largest dimension 0.5): zoom range [0.5, 2.0]
C6_Witness ==
    /\ InFocused
    /\ selectedModel = 2
    /\ minDistance = 5 /\ maxDistance = 20
    /\ overlayDisplay = "block"
    /\ overlayText = "Stage en Developpement Web - Smart Team"

(* C7: the close action hides the overlay in the step that starts the      *)
(* reset tween; the overlay is hidden during the whole reset tween and     *)
(* becomes visible again only when a focus-in tween completes.             *)
C7_CloseHidesOverlayAtOnce ==
    [][ /\ ResetTweenStarts => (overlayDisplay = "block" /\ overlayDisplay' = "none")
        /\ resetTween'.active => overlayDisplay' = "none"
        /\ (overlayDisplay = "none" /\ overlayDisplay' = "block") => ZoomTweenCompletes
      ]_vars

\* in the middle of a reset tween, overlay hidden
C7_Witness ==
    /\ resetTween.active
    /\ now > resetTween.startTime
    /\ overlayDisplay = "none"

(* C8: when the reset tween completes, selectedModel is null, isZooming is *)
(* false, the zoom limits are 3 and 100, the camera is at (0,2,8) and the  *)
(* look target at (0,0,6), whatever the item and the poses at click and    *)
(* at close.                                                               *)
C8_RoundTripRestoresAnchor ==
    [][ ResetTweenCompletes =>
            /\ selectedModel' = 0
            /\ ~isZooming'
            /\ minDistance' = 30 /\ maxDistance' = 1000
            /\ cameraPosition' = <<0, 20, 80>>
            /\ controlsTarget' = <<0, 0, 60>>
      ]_vars

\* a reset tween has just completed, after the intro: the cycle is closed
C8_Witness ==
    /\ initialAnimationComplete
    /\ frameSteps # <<>> /\ Last(frameSteps) = "reset"
    /\ ~resetTween.active
    /\ ~isZooming
    /\ cameraPosition = <<0, 20, 80>>

(* C9: the labels with non-zero opacity are exactly the label of the item  *)
(* owning the nearest hit of the last frame's ray (opacity 0.8), and none  *)
(* when the ray hit nothing.                                               *)
C9_HoverHighlight ==
    /\ \A i \in PaperIds :
          labelOpacity[i] = IF intersects # <<>> /\ i = intersects[1] THEN 8 ELSE 0
    /\ Cardinality({i \in PaperIds : labelOpacity[i] # 0})
          = IF intersects = <<>> THEN 0 ELSE 1

\* two items under the ray while focused: only the nearer one is highlighted
C9_Witness ==
    /\ isZooming
    /\ intersects = <<2, 1>>
    /\ labelOpacity[2] = 8 /\ labelOpacity[1] = 0

(* C10: animate() plays the hover sound in a frame iff the frame's hovered *)
(* item is non-null and differs from the previous frame's hovered item.    *)
C10_HoverSoundOnRisingEdge ==
    [][ AnimateStep =>
            (hoverSoundPlayed' <=> (Hovered' # 0 /\ Hovered' # Hovered)) ]_vars

\* the same item hovered again: no sound, during a tween
C10_Witness ==
    /\ isZooming
    /\ Hovered = 1
    /\ lastHoveredModel = 1
    /\ ~hoverSoundPlayed

SqDist(a, b) ==
    (a[1] - b[1]) * (a[1] - b[1]) + (a[2] - b[2]) * (a[2] - b[2])
        + (a[3] - b[3]) * (a[3] - b[3])

(* C11 as stated: when a focus-in tween completes, the squared distance    *)
(* from the camera to the position the tween targets is 4 * maxDimension^2 *)
(* (the distance is exactly twice the largest dimension).                  *)
C11_DistanceIsTwiceMaxDimension ==
    [][ ZoomTweenCompletes =>
            SqDist(cameraPosition', zoomTween.modelPosition)
                = 4 * maxDimension[zoomTween.model] * maxDimension[zoomTween.model]
      ]_vars

(* C11 amended: when a focus-in tween completes, the camera is at the      *)
(* item's click-time position plus (0, 0.2, 2 * maxDimension): the offset  *)
(* along z is exactly twice the largest dimension, the camera is 0.2 above *)
(* the item, and the squared distance is 4 * maxDimension^2 + 0.04.        *)
C11_OffsetIsTwiceMaxDimensionAlongZ ==
    [][ ZoomTweenCompletes =>
            LET d == maxDimension[zoomTween.model]
                p == zoomTween.modelPosition
            IN  /\ cameraPosition' = <<p[1], p[2] + 2, p[3] + 2 * d>>
                /\ SqDist(cameraPosition', p) = 4 * d * d + 4
                /\ controlsTarget' = p
      ]_vars

\* Focused on paper 1 (largest dimension 0.6) after its first float step:
\* the camera is at its position (1.6, 0.1, 6.0) plus (0, 0.2, 1.2)
C11_Witness ==
    /\ InFocused
    /\ selectedModel = 1
    /\ controlsTarget = <<16, 1, 60>>
    /\ cameraPosition = <<16, 3, 72>>

\* Steps of the three tween callbacks
IntroStep == Running("initialCameraAnimation") /\ frameQueue' # frameQueue
ZoomStep == Running("animateCamera") /\ frameQueue' # frameQueue
ResetStep == Running("animateReset") /\ frameQueue' # frameQueue

\* C14: tweens run to completion.  In finite-run form: a tween in flight
\* always has exactly one callback pending, and one waiting for the next
\* frame has not yet reached its duration; a callback run before the
\* duration has elapsed leaves the tween as it is, and the first one run
\* at or after it completes the tween (intro: initialAnimationComplete;
\* focus-in: Focused; reset: Idle with isZooming false); every other step
\* (click, close, animate, user drag, load events, frame start) leaves the
\* tweens and the intro's start time untouched.  So each tween completes
\* in the first frame delivered at or after startTime + duration.
C14_TweensRunToCompletion ==
    [][ /\ ~initialAnimationComplete' =>
               CountIn(rafQueue', "initialCameraAnimation")
                 + CountIn(frameQueue', "initialCameraAnimation") = 1
        /\ zoomTween'.active =>
               /\ CountIn(rafQueue', "animateCamera")
                    + CountIn(frameQueue', "animateCamera") = 1
               /\ CountIn(rafQueue', "animateCamera") = 1 =>
                      now' - zoomTween'.startTime < animationDuration
        /\ resetTween'.active =>
               /\ CountIn(rafQueue', "animateReset")
                    + CountIn(frameQueue', "animateReset") = 1
               /\ CountIn(rafQueue', "animateReset") = 1 =>
                      now' - resetTween'.startTime < resetDuration
        /\ IntroStep =>
               /\ ~initialAnimationComplete
               /\ initialAnimationComplete' =
                      (initialAnimationStartTime # 0
                         /\ now - initialAnimationStartTime >= introDuration)
        /\ ZoomStep =>
               /\ zoomTween.active
               /\ ZoomTweenCompletes = (now - zoomTween.startTime >= animationDuration)
               /\ ZoomTweenCompletes => InFocused' /\ selectedModel' = zoomTween.model
               /\ ~ZoomTweenCompletes => zoomTween' = zoomTween
        /\ ResetStep =>
               /\ resetTween.active
               /\ ResetTweenCompletes = (now - resetTween.startTime >= resetDuration)
               /\ ResetTweenCompletes =>
                      ~isZooming' /\ selectedModel' = 0 /\ ~zoomTween'.active
               /\ ~ResetTweenCompletes => resetTween' = resetTween
        /\ (zoomTween.active /\ ~ZoomStep) => zoomTween' = zoomTween
        /\ (resetTween.active /\ ~ResetStep) => resetTween' = resetTween
        /\ ~IntroStep => UNCHANGED introVars
        /\ initialAnimationStartTime # 0 => UNCHANGED initialAnimationStartTime
        /\ initialAnimationComplete => initialAnimationComplete'
      ]_vars

\* all three tweens have run to their ends: the intro is complete and a
\* reset tween, following a focus-in on the second item that went through
\* Focused, has just returned the machine to Idle with both items loaded
C14_Witness ==
    /\ IsIdle
    /\ frameSteps # <<>> /\ Last(frameSteps) = "reset"
    /\ overlayText = sectionContent[paperLabels[2]]
    /\ overlayDisplay = "none"
    /\ Len(papers) = 2

\* progress of each tween at the present clock, as a numerator over its duration
IntroProgress ==
    IF initialAnimationStartTime = 0 THEN 0
    ELSE Progress(now - initialAnimationStartTime, introDuration)
ZoomProgress == Progress(now - zoomTween.startTime, animationDuration)
ResetProgress == Progress(now - resetTween.startTime, resetDuration)

\* C15: for each of the three tweens, progress never decreases from one
\* step to the next, lies in [0, 1] and is exactly 1 once the duration has
\* elapsed; the callback that finds progress = 1 applies the completion
\* effects (end pose, flags) and requests no further frame, and a tween
\* that is over has no callback pending, so that it changes nothing later.
C15_ProgressMonotoneAndClamped ==
    [][ /\ IntroProgress \in 0..introDuration
        /\ IntroProgress' >= IntroProgress
        /\ (initialAnimationStartTime # 0
              /\ now - initialAnimationStartTime >= introDuration) =>
               IntroProgress = introDuration
        /\ IntroStep =>
               /\ initialAnimationComplete' = (IntroProgress' = introDuration)
               /\ initialAnimationComplete' =>
                      /\ cameraPosition' = finalCameraPosition
                      /\ controlsEnabled'
        /\ initialAnimationComplete' => ~Pending("initialCameraAnimation")'
        /\ zoomTween.active =>
               /\ ZoomProgress \in 0..animationDuration
               /\ now - zoomTween.startTime >= animationDuration =>
                      ZoomProgress = animationDuration
               /\ zoomTween'.active => ZoomProgress' >= ZoomProgress
        /\ ZoomStep =>
               /\ ZoomTweenCompletes = (ZoomProgress = animationDuration)
               /\ ZoomTweenCompletes =>
                      /\ cameraPosition' = zoomTween.targetPosition
                      /\ controlsTarget' = zoomTween.modelPosition
                      /\ controlsEnabled'
        /\ ~zoomTween'.active => ~Pending("animateCamera")'
        /\ resetTween.active =>
               /\ ResetProgress \in 0..resetDuration
               /\ now - resetTween.startTime >= resetDuration =>
                      ResetProgress = resetDuration
               /\ resetTween'.active => ResetProgress' >= ResetProgress
        /\ ResetStep =>
               /\ ResetTweenCompletes = (ResetProgress = resetDuration)
               /\ ResetTweenCompletes =>
                      /\ cameraPosition' = finalCameraPosition
                      /\ controlsTarget' = resetTarget
                      /\ controlsEnabled'
        /\ ~resetTween'.active => ~Pending("animateReset")'
      ]_vars

\* the intro tween has just completed in a frame whose elapsed time is
\* beyond the duration: progress was clamped to 1, the camera is exactly on
\* the anchor and no further intro callback is pending
C15_Witness ==
    /\ initialAnimationComplete
    /\ frameSteps # <<>> /\ Last(frameSteps) = "intro"
    /\ now - initialAnimationStartTime > introDuration
    /\ cameraPosition = finalCameraPosition
    /\ ~Pending("initialCameraAnimation")

\* paper i has been pushed to papers
Loaded(i) == \E k \in DOMAIN papers : papers[k] = i

\* C16: an asset that never loads costs only its own item.  In finite-run
\* form: once createPaper(loadIndex) is stalled for good, every other item
\* is in papers already (once stalled, no load callback is outstanding, so
\* papers cannot grow any more).
C16_AssetFailureIsIsolated ==
    loadStage = "stalled" =>
        \A i \in PaperIds : i # loadIndex => Loaded(i)

C18_OrbitResumesFromAnchor ==
    [][ (AnimateStep /\ IsIdle /\ cameraPosition = finalCameraPosition) =>
            cameraPosition' = finalCameraPosition ]_vars

\* C19: between handlers and frame callbacks, isZooming is true iff
\* selectedModel is non-null, and a non-null selectedModel is one of the
\* loaded papers.
C19_ZoomingIffSelected ==
    /\ isZooming <=> selectedModel # 0
    /\ selectedModel # 0 => Loaded(selectedModel)

\* the reset tween of the second item is in flight: both are still set
C19_Witness ==
    /\ resetTween.active
    /\ isZooming
    /\ selectedModel = 2
    /\ Loaded(2)

----------------------------------------------------------------------------
(* showContent on its own: the Content Presenter asked for arbitrary labels *)

\* labels without an entry in sectionContent ('Moon' is the label of main.js:370)
UnknownLabels == {"Moon", "Loisirs", "Accueil", ""}
TestLabels == DOMAIN sectionContent \cup UnknownLabels

\* everything showContent and the hiding of the overlay leave alone
sceneVars == <<now, rafQueue, frameQueue, frameSteps, introVars, cameraPosition,
               controlsTarget, controlsEnabled, limitVars, cameraOrbitAngle,
               loadVars, paperPosition, hoverVars, isZooming, selectedModel,
               zoomTween, resetTween, clickSeq>>

\* showContent(model) for a model whose label reads `label`
ShowContentCall ==
    /\ \E label \in TestLabels : ShowLabel(label)
    /\ UNCHANGED sceneVars

\* contentOverlay.style.display = 'none'
HideOverlay ==
    /\ overlayDisplay = "block"
    /\ overlayDisplay' = "none"
    /\ UNCHANGED <<overlayText, consoleErrors, sceneVars>>

NextContent == ShowContentCall \/ HideOverlay

SpecContent == Init /\ [][NextContent]_vars

----------------------------------------------------------------------------
(* The program with a paper whose label has no entry in sectionContent *)

\* paperLabels with a first label that sectionContent does not know
MislabelledPapers == [paperLabels EXCEPT ![1] = "Moon"]

InitMislabelled == InitScene /\ labelTitle = MislabelledPapers

SpecMislabelled == InitMislabelled /\ [][Next]_vars

----------------------------------------------------------------------------
(* resetView() called while nothing is zoomed and the overlay is hidden *)

\* resetView() invoked directly in Idle or during the intro, which the
\* close button cannot do
ResetViewWhenIdle ==
    /\ ~isZooming
    /\ overlayDisplay = "none"
    /\ ResetViewCall

NextResetView ==
    \/ BeginFrame
    \/ RunInitialCameraAnimation
    \/ \E hits \in HitLists(papers) : RunAnimate(hits)
    \/ RunAnimateReset
    \/ ResetViewWhenIdle

SpecResetView == Init /\ [][NextResetView]_vars

\* C20: resetView() invoked while isZooming is false and the overlay is not
\* displayed returns at its guard: it does not set isZooming, does not
\* disable the controls and starts no reset tween.
C20_ResetViewGuardReturns ==
    [][ (~isZooming /\ overlayDisplay = "none") =>
            /\ ~ResetTweenStarts
            /\ ~isZooming'
            /\ (controlsEnabled => controlsEnabled')
      ]_vars

====
